---- MODULE Spec2Model ----
(***************************************************************************)
(* A model of the guid crates: the chomp parser `chunks` of guid-parser    *)
(* (hex_digit, short_chunk, medium_chunk, long_chunk, chunks), the         *)
(* projections Chunks::to_bytes / to_parts / to_guid, and the entry points *)
(* parse_bytes, parse and guid_parts_impl that run the parser through      *)
(* chomp's parse_only.                                                     *)
(*                                                                         *)
(* Bytes are the integers 0..255.  A u16 is an integer 0..65535.  A u32    *)
(* and a u64 do not fit TLC's integers, so a u32 is a pair and a u64 a     *)
(* quadruple of 16-bit limbs, most significant limb first, and the shifts, *)
(* masks and additions of the source are carried out limb by limb with     *)
(* the wrap-around of the machine word.                                    *)
(***************************************************************************)
EXTENDS Integers, Sequences, FiniteSets, TLC

VARIABLES src, pos, step, digits, pc, perr, parsed, out

vars == <<src, pos, step, digits, pc, perr, parsed, out>>

(***************************************************************************)
(* Machine words.                                                          *)
(***************************************************************************)
Limb == 65536

RECURSIVE Pow2(_)
Pow2(n) == IF n = 0 THEN 1 ELSE 2 * Pow2(n - 1)

RECURSIVE BitAnd(_, _)
BitAnd(a, b) ==
    IF a = 0 \/ b = 0 THEN 0
    ELSE 2 * BitAnd(a \div 2, b \div 2) + (IF a % 2 = 1 /\ b % 2 = 1 THEN 1 ELSE 0)

\* `w as uN` for N = 16 * n: zero extension to n limbs.
ZeroExtend(w, n) ==
    [i \in 1..n |-> IF i > n - Len(w) THEN w[i - (n - Len(w))] ELSE 0]

\* w << n in the width of w (bits shifted out are lost).
WordShl(w, n) ==
    LET q == n \div 16
        r == n % 16
        L == Len(w)
        at(i) == IF i >= 1 /\ i <= L THEN w[i] ELSE 0
    IN  [i \in 1..L |->
            ((at(i + q) * Pow2(r)) % Limb) + ((at(i + q + 1) * Pow2(r)) \div Limb)]

\* w >> n (logical).
WordShr(w, n) ==
    LET q == n \div 16
        r == n % 16
        L == Len(w)
        at(i) == IF i >= 1 /\ i <= L THEN w[i] ELSE 0
    IN  [i \in 1..L |->
            (at(i - q) \div Pow2(r)) + ((at(i - q - 1) % Pow2(r)) * Pow2(16 - r))]

\* w & m.
WordAnd(w, m) == [i \in 1..Len(w) |-> BitAnd(w[i], m[i])]

\* The carry out of limb i of a + b (limb Len(a) is the least significant).
RECURSIVE Carry(_, _, _)
Carry(a, b, i) ==
    IF i > Len(a) THEN 0
    ELSE (a[i] + b[i] + Carry(a, b, i + 1)) \div Limb

\* a + b in the width of a and b (wrapping), and whether the true sum overflows.
WordAdd(a, b) == [i \in 1..Len(a) |-> (a[i] + b[i] + Carry(a, b, i + 1)) % Limb]
WordAddOverflows(a, b) == Carry(a, b, 1) # 0

\* `w as u8`: the low eight bits.
AsU8(w) == w[Len(w)] % 256

\* u16 arithmetic.
Shl16(x, n) == (x * Pow2(n)) % Limb
Shr16(x, n) == x \div Pow2(n)
Add16(a, b) == (a + b) % Limb
Add16Overflows(a, b) == a + b >= Limb

(***************************************************************************)
(* guid-parser: hex_digit, short_chunk, medium_chunk, long_chunk.          *)
(***************************************************************************)
\* hex_digit_satisfy with the upper bound of the A-F range one too far.
hex_digit_satisfy_wide(c) ==
    \/ (48 <= c /\ c <= 57)
    \/ (65 <= c /\ c <= 71)
    \/ (97 <= c /\ c <= 102)

\* The closure given to satisfy: c is an ASCII hex digit.
hex_digit_satisfy(c) ==
    \/ (48 <= c /\ c <= 57)
    \/ (65 <= c /\ c <= 70)
    \/ (97 <= c /\ c <= 102)

\* The value hex_digit_map gives when the source reaches unreachable!().
Unreachable == -1

\* hex_digit_map with the + 10 of the lowercase branch forgotten.
hex_digit_map_lower(c) ==
    IF 48 <= c /\ c <= 57 THEN c - 48
    ELSE IF 65 <= c /\ c <= 70 THEN (c - 65) + 10
    ELSE IF 97 <= c /\ c <= 102 THEN (c - 97)
    ELSE Unreachable

\* The closure given to map: the value of an accepted byte.
hex_digit_map(c) ==
    IF 48 <= c /\ c <= 57 THEN c - 48
    ELSE IF 65 <= c /\ c <= 70 THEN (c - 65) + 10
    ELSE IF 97 <= c /\ c <= 102 THEN (c - 97) + 10
    ELSE Unreachable

\* short_chunk with the second digit shifted by 4 instead of 8.
short_chunk_typo(digit1, digit2, digit3, digit4) ==
    Add16(Add16(Add16(Shl16(digit1, 12), Shl16(digit2, 4)), Shl16(digit3, 4)), digit4)

\* The `ret` of short_chunk: four digits, the first the most significant.
short_chunk(digit1, digit2, digit3, digit4) ==
    Add16(Add16(Add16(Shl16(digit1, 12), Shl16(digit2, 8)), Shl16(digit3, 4)), digit4)

\* Whether one of the three u16 additions of short_chunk overflows.
short_chunk_overflows(digit1, digit2, digit3, digit4) ==
    \/ Add16Overflows(Shl16(digit1, 12), Shl16(digit2, 8))
    \/ Add16Overflows(Add16(Shl16(digit1, 12), Shl16(digit2, 8)), Shl16(digit3, 4))
    \/ Add16Overflows(Add16(Add16(Shl16(digit1, 12), Shl16(digit2, 8)), Shl16(digit3, 4)),
                      digit4)

\* The `ret` of medium_chunk: a u32 (two limbs).
medium_chunk(short1, short2) ==
    WordAdd(WordShl(ZeroExtend(<<short1>>, 2), 16), ZeroExtend(<<short2>>, 2))

medium_chunk_overflows(short1, short2) ==
    WordAddOverflows(WordShl(ZeroExtend(<<short1>>, 2), 16), ZeroExtend(<<short2>>, 2))

\* The `ret` of long_chunk: a u48.
long_chunk(hi, lo) == [hi |-> hi, lo |-> lo]

\* u48::to_u64: a u64 (four limbs).
to_u64(self) ==
    WordAdd(WordShl(ZeroExtend(<<self.hi>>, 4), 32), ZeroExtend(self.lo, 4))

to_u64_overflows(self) ==
    WordAddOverflows(WordShl(ZeroExtend(<<self.hi>>, 4), 32), ZeroExtend(self.lo, 4))

(***************************************************************************)
(* The parse! blocks, flattened: the primitive parsers in the order the    *)
(* sequencing applies them.                                                *)
(***************************************************************************)
short_chunk_seq == <<"hex_digit", "hex_digit", "hex_digit", "hex_digit">>
medium_chunk_seq == short_chunk_seq \o short_chunk_seq
long_chunk_seq == short_chunk_seq \o medium_chunk_seq
chunks_seq ==
    medium_chunk_seq \o <<"string">> \o
    short_chunk_seq \o <<"string">> \o
    short_chunk_seq \o <<"string">> \o
    short_chunk_seq \o <<"string">> \o
    long_chunk_seq

\* The byte string given to string(): b"-".
Separator == <<45>>

\* The values the nested parsers return, from the digits bound so far: d
\* holds the values of the hex_digit calls in order, i is the first digit of
\* the sub-parser.
ShortAt(d, i) == short_chunk(d[i], d[i + 1], d[i + 2], d[i + 3])
MediumAt(d, i) == medium_chunk(ShortAt(d, i), ShortAt(d, i + 4))
LongAt(d, i) == long_chunk(ShortAt(d, i), MediumAt(d, i + 4))

\* The `ret` of chunks.
chunks_ret(d) ==
    [chunk1 |-> MediumAt(d, 1),
     chunk2 |-> ShortAt(d, 9),
     chunk3 |-> ShortAt(d, 13),
     chunk4 |-> ShortAt(d, 17),
     chunk5 |-> LongAt(d, 21)]

(***************************************************************************)
(* Chunks::to_bytes, to_parts, to_guid.                                    *)
(***************************************************************************)
Mask_FF000000 == <<65280, 0>>
Mask_00FF0000 == <<255, 0>>
Mask_0000FF00 == <<0, 65280>>
Mask_000000FF == <<0, 255>>

U32Byte(w, mask, shift) == AsU8(WordShr(WordAnd(w, mask), shift))
U16Byte(x, mask, shift) == Shr16(BitAnd(x, mask), shift) % 256

\* to_bytes with chunk1 written little-endian.
to_bytes_little_endian(self) ==
    << U32Byte(self.chunk1, Mask_000000FF, 0),
       U32Byte(self.chunk1, Mask_0000FF00, 8),
       U32Byte(self.chunk1, Mask_00FF0000, 16),
       U32Byte(self.chunk1, Mask_FF000000, 24),
       U16Byte(self.chunk2, 65280, 8),
       U16Byte(self.chunk2, 255, 0),
       U16Byte(self.chunk3, 65280, 8),
       U16Byte(self.chunk3, 255, 0),
       U16Byte(self.chunk4, 65280, 8),
       U16Byte(self.chunk4, 255, 0),
       U16Byte(self.chunk5.hi, 65280, 8),
       U16Byte(self.chunk5.hi, 255, 0),
       U32Byte(self.chunk5.lo, Mask_FF000000, 24),
       U32Byte(self.chunk5.lo, Mask_00FF0000, 16),
       U32Byte(self.chunk5.lo, Mask_0000FF00, 8),
       U32Byte(self.chunk5.lo, Mask_000000FF, 0) >>

\* Chunks::to_bytes: each field big-endian, the fields in order.
to_bytes(self) ==
    << U32Byte(self.chunk1, Mask_FF000000, 24),
       U32Byte(self.chunk1, Mask_00FF0000, 16),
       U32Byte(self.chunk1, Mask_0000FF00, 8),
       U32Byte(self.chunk1, Mask_000000FF, 0),
       U16Byte(self.chunk2, 65280, 8),
       U16Byte(self.chunk2, 255, 0),
       U16Byte(self.chunk3, 65280, 8),
       U16Byte(self.chunk3, 255, 0),
       U16Byte(self.chunk4, 65280, 8),
       U16Byte(self.chunk4, 255, 0),
       U16Byte(self.chunk5.hi, 65280, 8),
       U16Byte(self.chunk5.hi, 255, 0),
       U32Byte(self.chunk5.lo, Mask_FF000000, 24),
       U32Byte(self.chunk5.lo, Mask_00FF0000, 16),
       U32Byte(self.chunk5.lo, Mask_0000FF00, 8),
       U32Byte(self.chunk5.lo, Mask_000000FF, 0) >>

to_parts(self) ==
    LET b == to_bytes(self)
    IN  << self.chunk1, self.chunk2, self.chunk3,
           <<b[9], b[10], b[11], b[12], b[13], b[14], b[15], b[16]>> >>

\* to_guid with the two bytes of chunk4 in the wrong order.
to_guid_swapped(self) ==
    [Data1 |-> self.chunk1,
     Data2 |-> self.chunk2,
     Data3 |-> self.chunk3,
     Data4 |-> << U16Byte(self.chunk4, 255, 0),
                  U16Byte(self.chunk4, 65280, 8),
                  U16Byte(self.chunk5.hi, 65280, 8),
                  U16Byte(self.chunk5.hi, 255, 0),
                  U32Byte(self.chunk5.lo, Mask_FF000000, 24),
                  U32Byte(self.chunk5.lo, Mask_00FF0000, 16),
                  U32Byte(self.chunk5.lo, Mask_0000FF00, 8),
                  U32Byte(self.chunk5.lo, Mask_000000FF, 0) >>]

\* Chunks::to_guid.
to_guid(self) ==
    [Data1 |-> self.chunk1,
     Data2 |-> self.chunk2,
     Data3 |-> self.chunk3,
     Data4 |-> << U16Byte(self.chunk4, 65280, 8),
                  U16Byte(self.chunk4, 255, 0),
                  U16Byte(self.chunk5.hi, 65280, 8),
                  U16Byte(self.chunk5.hi, 255, 0),
                  U32Byte(self.chunk5.lo, Mask_FF000000, 24),
                  U32Byte(self.chunk5.lo, Mask_00FF0000, 16),
                  U32Byte(self.chunk5.lo, Mask_0000FF00, 8),
                  U32Byte(self.chunk5.lo, Mask_000000FF, 0) >>]

\* The GUID the guid! macro builds from the tuple guid_parts! expands to.
guid_macro(parts) ==
    [Data1 |-> parts[1], Data2 |-> parts[2], Data3 |-> parts[3], Data4 |-> parts[4]]

(***************************************************************************)
(* The parse error: chomp's Error<u8>, as the parsers of this crate raise  *)
(* it.  satisfy fails with Error::unexpected() (on a byte its closure      *)
(* rejects and at the end of the input alike) and string fails with        *)
(* Error::expected(b), b the byte of its argument that was not matched.    *)
(***************************************************************************)
NoError == [kind |-> "none", byte |-> 0]
\* An end-of-input error of its own kind, in place of Error::unexpected().
Error_incomplete == [kind |-> "incomplete", byte |-> 0]

\* A separator matched with satisfy: the expected byte is lost.
Error_expected_lost(b) == [kind |-> "unexpected", byte |-> 0]

Error_unexpected == [kind |-> "unexpected", byte |-> 0]
Error_expected(b) == [kind |-> "expected", byte |-> b]

\* e.to_string(): the Display of the error ({:?} of a u8 is its decimal form).
Error_to_string(e) ==
    IF e.kind = "expected" THEN "expected " \o ToString(e.byte) ELSE "unexpected"

\* map_err of parse_chunks: the remaining input is dropped, the error's
\* Display becomes the message.
ParseGuidError(rest, e) == [msg |-> Error_to_string(e)]

NoChunks == [chunk1 |-> <<0, 0>>, chunk2 |-> 0, chunk3 |-> 0, chunk4 |-> 0,
             chunk5 |-> [hi |-> 0, lo |-> <<0, 0>>]]

NoOut == [api |-> "none", tag |-> "none", val |-> <<>>, msg |-> ""]

(***************************************************************************)
(* The inputs.                                                             *)
(***************************************************************************)
\* The literals of the tests, and their bytes as the tests expect them.
Literal1 == <<54, 66, 50, 57, 70, 67, 52, 48, 45, 67, 65, 52, 55, 45, 49, 48, 54, 55, 45, 66, 51, 49, 68, 45, 48, 48, 68, 68, 48, 49, 48, 54, 54, 50, 68, 65>>
Literal2 == <<99, 97, 102, 101, 102, 48, 48, 100, 45, 67, 65, 70, 69, 45, 102, 48, 48, 100, 45, 66, 69, 69, 70, 45, 49, 50, 51, 52, 97, 98, 99, 100, 68, 65, 68, 65>>
Bytes1 == <<107, 41, 252, 64, 202, 71, 16, 103, 179, 29, 0, 221, 1, 6, 98, 218>>
Bytes2 == <<202, 254, 240, 13, 202, 254, 240, 13, 190, 239, 18, 52, 171, 205, 218, 218>>

\* The largest number of bytes appended after a literal.
MaxTail == 2

\* How many of ByteSamples are used as the one non-zero byte of an array.
NumSamples == 3

ByteSamples == <<171, 205, 239, 255, 9, 16>>

\* The bytes put where a hex digit or a hyphen belongs: the neighbours of the
\* three hex ranges, a hyphen, and a hex digit (for the hyphens' places).
BadBytes == {47, 58, 64, 71, 96, 103, 45, 48}

\* The bytes appended after a literal, and inserted into one.
TailBytes == {48, 45, 71}
ExtraDigits == {48, 70, 97}

\* The formatter of the round trip: a 16-byte array as 8-4-4-4-12 hex digits,
\* each letter in the case its mode gives to its place.
Modes == {"upper", "lower", "mixed", "mixed2"}

UpperAt(mode, j) ==
    CASE mode = "upper" -> TRUE
      [] mode = "lower" -> FALSE
      [] mode = "mixed" -> j % 2 = 0
      [] OTHER -> j % 3 = 0

HexChar(n, upper) == IF n < 10 THEN 48 + n ELSE IF upper THEN 55 + n ELSE 87 + n

HyphenPlaces == {9, 14, 19, 24}

\* The byte at place p of the formatted array.
FormatAt(B, mode, p) ==
    IF p \in HyphenPlaces THEN 45
    ELSE LET j == p - Cardinality({h \in HyphenPlaces : h < p})
             b == B[(j + 1) \div 2]
             n == IF j % 2 = 1 THEN b \div 16 ELSE b % 16
         IN  HexChar(n, UpperAt(mode, j))

Format(B, mode) == [p \in 1..36 |-> FormatAt(B, mode, p)]

\* s is B formatted in the given mode.
FormatsTo(B, mode, s) == Len(s) = 36 /\ \A p \in 1..36 : s[p] = FormatAt(B, mode, p)

OneHot(k, v) == [i \in 1..16 |-> IF i = k THEN v ELSE 0]
AllFF == [i \in 1..16 |-> 255]

Arrays ==
    {Bytes1, Bytes2, AllFF} \cup
    {OneHot(k, ByteSamples[i]) : k \in 1..16, i \in 1..NumSamples}

\* Edits of a literal; offsets count from 0.
Insert(s, i, b) == SubSeq(s, 1, i) \o <<b>> \o SubSeq(s, i + 1, Len(s))
Remove(s, i) == SubSeq(s, 1, i) \o SubSeq(s, i + 2, Len(s))
Replace(s, i, b) == [s EXCEPT ![i + 1] = b]
Truncate(s, n) == SubSeq(s, 1, n)

RECURSIVE Tails(_)
Tails(n) ==
    IF n = 0 THEN {<<>>}
    ELSE Tails(n - 1) \cup {Append(t, b) : t \in {u \in Tails(n - 1) : Len(u) = n - 1},
                                           b \in TailBytes}

Bases == {Literal1, Literal2, Format(AllFF, "lower")}

ValidInputs == {Format(B, mode) : B \in Arrays, mode \in Modes}

EditedInputs ==
    UNION {   {Insert(s, i, b) : i \in 0..36, b \in ExtraDigits}
         \cup {Remove(s, i) : i \in 0..35}
         \cup {Replace(s, i, b) : i \in 0..35, b \in BadBytes}
         \cup {Truncate(s, n) : n \in 0..35}
         \cup {s \o t : t \in Tails(MaxTail)}
         \cup {Insert(s, h, 45) \o t : h \in HyphenPlaces, t \in Tails(1)}
         : s \in Bases }

TwoDefectInputs ==
         {Replace(Replace(Literal1, i, a), j, b) :
              i \in 0..34, j \in 0..35, a \in {71, 45}, b \in {71, 45}}
    \cup {Truncate(Replace(Literal2, i, 71), n) : i \in 0..35, n \in {9, 20, 30}}
    \cup {Replace(Remove(Literal1, h - 1), j, 71) : h \in HyphenPlaces, j \in 0..34}

\* Two inputs that fail at offsets 3 and 20.
Probes == {Truncate(Literal1, 3), Replace(Literal1, 20, 71)}

Inputs == ValidInputs \cup EditedInputs \cup TwoDefectInputs

(***************************************************************************)
(* The state.  src is the text given to the entry point; pos is the        *)
(* offset of the input cursor; step counts the primitive parsers of        *)
(* chunks_seq that have succeeded; digits holds the values the hex_digit   *)
(* calls have returned; pc is "parsing" while the chunks parser runs,      *)
(* "parsed" / "failed" once parse_only has its result (parsed, or perr     *)
(* with the remaining input src[pos..]), "panic" at unreachable!(), and    *)
(* "returned" once an entry point has returned out.                        *)
(***************************************************************************)
Init ==
    /\ src \in Inputs
    /\ pos = 0
    /\ step = 0
    /\ digits = <<>>
    /\ pc = "parsing"
    /\ perr = NoError
    /\ parsed = NoChunks
    /\ out = NoOut

\* string matching every repetition of the first byte of s.
RECURSIVE string_matched_greedy(_, _, _, _)
string_matched_greedy(input, p, s, n) ==
    IF p + n < Len(input) /\ input[p + n + 1] = s[1]
    THEN string_matched_greedy(input, p, s, n + 1)
    ELSE n

\* The number of leading bytes of the input at offset p that string(s)
\* matches: it consumes while the bytes agree with s.
RECURSIVE string_matched(_, _, _, _)
string_matched(input, p, s, n) ==
    IF n >= Len(s) \/ p + n >= Len(input) \/ input[p + n + 1] # s[n + 1] THEN n
    ELSE string_matched(input, p, s, n + 1)

\* hex_digit at offset p of the input: satisfy peeks at the next byte, takes
\* it when the closure accepts it and fails otherwise, also at the end of
\* the input; map turns the byte into its value.
hex_digit_at(input, p) ==
    IF p < Len(input) /\ hex_digit_satisfy(input[p + 1])
    THEN [ok |-> TRUE, pos |-> p + 1, val |-> hex_digit_map(input[p + 1]), err |-> NoError]
    ELSE [ok |-> FALSE, pos |-> p, val |-> 0, err |-> Error_unexpected]

\* string(s) at offset p of the input.
string_at(input, p, s) ==
    LET n == string_matched(input, p, s, 0)
    IN  IF n >= Len(s)
        THEN [ok |-> TRUE, pos |-> p + n, val |-> 0, err |-> NoError]
        ELSE [ok |-> FALSE, pos |-> p + n, val |-> 0, err |-> Error_expected(s[n + 1])]

\* parse_only(chunks, input) as a function of the input: the primitives of
\* chunks_seq from offset p on, k of them done, d the digits bound so far.
\* The first failure ends the parse with its error and the offset it
\* occurred at (the remaining input is input[pos..]).
RECURSIVE chunks_from(_, _, _, _)
chunks_from(input, p, k, d) ==
    IF k = Len(chunks_seq)
    THEN [ok |-> TRUE, pos |-> p, val |-> chunks_ret(d), err |-> NoError]
    ELSE LET r == IF chunks_seq[k + 1] = "hex_digit" THEN hex_digit_at(input, p)
                  ELSE string_at(input, p, Separator)
         IN  IF ~r.ok \/ r.val = Unreachable
             THEN [ok |-> FALSE, pos |-> r.pos, val |-> NoChunks, err |-> r.err]
             ELSE chunks_from(input, r.pos, k + 1,
                              IF chunks_seq[k + 1] = "hex_digit" THEN Append(d, r.val) ELSE d)

parse_only(input) == chunks_from(input, 0, 0, <<>>)

\* One hex_digit of the chunks parser.
hex_digit ==
    /\ pc = "parsing"
    /\ step < Len(chunks_seq)
    /\ chunks_seq[step + 1] = "hex_digit"
    /\ LET r == hex_digit_at(src, pos)
       IN  IF r.ok
           THEN /\ pos' = r.pos
                /\ step' = step + 1
                /\ digits' = Append(digits, r.val)
                /\ pc' = IF r.val = Unreachable THEN "panic" ELSE pc
                /\ UNCHANGED perr
           ELSE /\ pc' = "failed"
                /\ perr' = r.err
                /\ pos' = r.pos
                /\ UNCHANGED <<step, digits>>
    /\ UNCHANGED <<src, parsed, out>>

\* One string(b"-") of the chunks parser.
string ==
    /\ pc = "parsing"
    /\ step < Len(chunks_seq)
    /\ chunks_seq[step + 1] = "string"
    /\ LET r == string_at(src, pos, Separator)
       IN  IF r.ok
           THEN /\ pos' = r.pos
                /\ step' = step + 1
                /\ UNCHANGED <<pc, perr>>
           ELSE /\ pc' = "failed"
                /\ perr' = r.err
                /\ pos' = r.pos
                /\ UNCHANGED step
    /\ UNCHANGED <<src, digits, parsed, out>>

\* The `ret` of chunks; parse_only hands the value over whatever input is left.
chunks ==
    /\ pc = "parsing"
    /\ step = Len(chunks_seq)
    /\ parsed' = chunks_ret(digits)
    /\ pc' = "parsed"
    /\ UNCHANGED <<src, pos, step, digits, perr, out>>

\* parse_chunks with the error swallowed: a zero Chunks in its place.
parse_chunks_default ==
    IF pc = "parsed"
    THEN [tag |-> "Ok", val |-> parsed, msg |-> ""]
    ELSE [tag |-> "Ok", val |-> NoChunks, msg |-> ""]

\* parse_chunks: parse_only's result with the error mapped to a ParseGuidError.
parse_chunks ==
    IF pc = "parsed"
    THEN [tag |-> "Ok", val |-> parsed, msg |-> ""]
    ELSE [tag |-> "Err", val |-> <<>>,
          msg |-> ParseGuidError(SubSeq(src, pos + 1, Len(src)), perr).msg]

\* parse_bytes(src).
parse_bytes ==
    /\ pc \in {"parsed", "failed"}
    /\ out' = [api |-> "parse_bytes",
               tag |-> parse_chunks.tag,
               val |-> IF parse_chunks.tag = "Ok" THEN to_bytes(parse_chunks.val) ELSE <<>>,
               msg |-> parse_chunks.msg]
    /\ pc' = "returned"
    /\ UNCHANGED <<src, pos, step, digits, perr, parsed>>

\* parse(src), where GUID is defined.
parse ==
    /\ pc \in {"parsed", "failed"}
    /\ out' = [api |-> "parse",
               tag |-> parse_chunks.tag,
               val |-> IF parse_chunks.tag = "Ok" THEN to_guid(parse_chunks.val) ELSE <<>>,
               msg |-> parse_chunks.msg]
    /\ pc' = "returned"
    /\ UNCHANGED <<src, pos, step, digits, perr, parsed>>

\* guid!{src}: guid_parts_impl unwraps parse_only's result (a panic, which
\* fails the build, on an error) and the macro builds the GUID.
guid_parts_impl ==
    /\ pc \in {"parsed", "failed"}
    /\ out' = IF pc = "parsed"
              THEN [api |-> "guid", tag |-> "Ok",
                    val |-> guid_macro(to_parts(parsed)), msg |-> ""]
              ELSE [api |-> "guid", tag |-> "panic", val |-> <<>>, msg |-> ""]
    /\ pc' = "returned"
    /\ UNCHANGED <<src, pos, step, digits, perr, parsed>>

Next == hex_digit \/ string \/ chunks \/ parse_bytes \/ parse \/ guid_parts_impl

Spec == Init /\ [][Next]_vars

(***************************************************************************)
(* The grammar of the specification, stated apart from the parser: places  *)
(* count from 1, offsets from 0.                                           *)
(***************************************************************************)
IsHexChar(c) == (48 <= c /\ c <= 57) \/ (65 <= c /\ c <= 70) \/ (97 <= c /\ c <= 102)

UpperDigits == <<48, 49, 50, 51, 52, 53, 54, 55, 56, 57, 65, 66, 67, 68, 69, 70>>
LowerDigits == <<48, 49, 50, 51, 52, 53, 54, 55, 56, 57, 97, 98, 99, 100, 101, 102>>

DigitValue(c) == CHOOSE v \in 0..15 : c = UpperDigits[v + 1] \/ c = LowerDigits[v + 1]

\* The byte at place p of s is what hex8-hex4-hex4-hex4-hex12 wants there.
FitsAt(s, p) ==
    /\ p <= Len(s)
    /\ IF p \in HyphenPlaces THEN s[p] = 45 ELSE IsHexChar(s[p])

PrefixFits(s, n) == n <= Len(s) /\ \A p \in 1..n : FitsAt(s, p)

IsLiteral(s) == Len(s) = 36 /\ PrefixFits(s, 36)

First36(s) == SubSeq(s, 1, IF Len(s) < 36 THEN Len(s) ELSE 36)

\* The offset of the first byte that does not fit (the length of s when s
\* ends first), 36 when the first 36 bytes are a literal.
RECURSIVE FirstDefectFrom(_, _)
FirstDefectFrom(s, o) ==
    IF o = 36 THEN 36
    ELSE IF FitsAt(s, o + 1) THEN FirstDefectFrom(s, o + 1) ELSE o

FirstDefect(s) == FirstDefectFrom(s, 0)

\* The places of the 32 hex digits, in order.
DigitPlaces == SelectSeq([p \in 1..36 |-> p], LAMBDA p : p \notin HyphenPlaces)

\* Byte k of a literal: its k-th pair of hex digits, hyphens removed.
BytesOf(s) ==
    LET h == SelectSeq(s, LAMBDA c : c # 45)
    IN  [k \in 1..16 |-> 16 * DigitValue(h[2 * k - 1]) + DigitValue(h[2 * k])]

\* The n limbs of the big-endian value of the hex digit values ds.
NibblesToLimbs(ds, n) ==
    LET at(i) == IF i >= 1 THEN ds[i] ELSE 0
        off == Len(ds) - 4 * n
    IN  [l \in 1..n |->
            4096 * at(off + 4 * l - 3) + 256 * at(off + 4 * l - 2) +
            16 * at(off + 4 * l - 1) + at(off + 4 * l)]

Returned(api) == pc = "returned" /\ out.api = api

\* s is a literal with one more hex digit in one of its fields.
HasExtraDigit(s) ==
    /\ Len(s) = 37
    /\ \E i \in 0..36 : IsHexChar(s[i + 1]) /\ IsLiteral(Remove(s, i))

\* The hyphen of place h is missing: the fields before it are there and a
\* hex digit, or the end of the input, stands in its place.
MissingHyphen(s, h) ==
    /\ PrefixFits(s, h - 1)
    /\ (Len(s) = h - 1 \/ IsHexChar(s[h]))

\* The hyphen of place h is there and another follows it.
DoubledHyphen(s, h) ==
    /\ PrefixFits(s, h)
    /\ Len(s) > h
    /\ s[h + 1] = 45

\* s is a proper prefix of a literal that ends where a hex digit is due.
TruncatedInField(s) ==
    /\ Len(s) < 36
    /\ PrefixFits(s, Len(s))
    /\ (Len(s) + 1) \notin HyphenPlaces

(***************************************************************************)
(* The claims.                                                             *)
(***************************************************************************)

\* C1: for every 36-byte input of the form hex8-hex4-hex4-hex4-hex12, in
\* either case, the parse never fails and parse_bytes returns Ok with
\* exactly 16 bytes, byte k the value of the k-th pair of hex digits of the
\* input with the hyphens removed, the first digit of the pair the high
\* nibble.
C1_ParseBytesOfLiteral ==
    IsLiteral(src) =>
        /\ pc \notin {"failed", "panic"}
        /\ (pc # "returned" => ENABLED Next)
        /\ Returned("parse_bytes") =>
              /\ out.tag = "Ok"
              /\ Len(out.val) = 16
              /\ out.val = BytesOf(src)

\* C1 witness: the literal of test_bytes has been parsed to the bytes the
\* test expects.
C1_Witness ==
    /\ Returned("parse_bytes")
    /\ src = Literal2
    /\ out.tag = "Ok"
    /\ out.val = Bytes2

\* C2: round trip: when the input is a 16-byte array B formatted as
\* 8-4-4-4-12 hex digits, whatever the case of each letter, parse_bytes
\* returns Ok(B).
C2_RoundTrip ==
    Returned("parse_bytes") =>
        \A B \in Arrays, mode \in Modes :
            FormatsTo(B, mode, src) => out.tag = "Ok" /\ out.val = B

\* C2 witness: an array whose lowercase and uppercase forms differ has come
\* back from its lowercase form.
C2_Witness ==
    /\ Returned("parse_bytes")
    /\ \E B \in Arrays :
          /\ FormatsTo(B, "lower", src)
          /\ ~FormatsTo(B, "upper", src)
          /\ out.tag = "Ok"
          /\ out.val = B

\* C3: a literal with one extra hex digit in any of its five fields, the
\* last included, makes parse_bytes fail.
C3_ExtraDigitFails ==
    (Returned("parse_bytes") /\ HasExtraDigit(src)) => out.tag = "Err"

\* C4 as claimed: an input with a hyphen missing or a hyphen doubled fails,
\* every time with the error of the separator, Error::expected(b'-').
C4_SeparatorErrorsAsClaimed ==
    \A h \in HyphenPlaces :
        (MissingHyphen(src, h) \/ DoubledHyphen(src, h)) =>
            /\ pc # "parsed"
            /\ pc \in {"failed", "returned"} => perr = [kind |-> "expected", byte |-> 45]

\* C4 as amended: an input with a hyphen missing fails with
\* Error::expected(b'-') at the offset where the hyphen belongs; an input
\* with a hyphen doubled fails with Error::unexpected(), the error of a hex
\* digit, at the offset of the second hyphen.
C4_SeparatorErrors ==
    \A h \in HyphenPlaces :
        /\ MissingHyphen(src, h) =>
              /\ pc \in {"parsing", "failed", "returned"}
              /\ (pc = "parsing" => ENABLED Next /\ pos <= h - 1)
              /\ pc \in {"failed", "returned"} =>
                    /\ perr = [kind |-> "expected", byte |-> 45]
                    /\ pos = h - 1
                    /\ out.tag # "Ok"
        /\ DoubledHyphen(src, h) =>
              /\ pc \in {"parsing", "failed", "returned"}
              /\ (pc = "parsing" => ENABLED Next /\ pos <= h)
              /\ pc \in {"failed", "returned"} =>
                    /\ perr = [kind |-> "unexpected", byte |-> 0]
                    /\ pos = h
                    /\ out.tag # "Ok"

\* C4 witness: both cases have failed, each with its error.
C4_Witness ==
    /\ pc = "failed"
    /\ \/ MissingHyphen(src, 14) /\ perr.kind = "expected" /\ Len(src) > 13
       \/ DoubledHyphen(src, 14) /\ perr.kind = "unexpected"

\* C5: the cursor never passes the first byte that does not fit the form;
\* an input with such a byte among its first 36 fails there, with
\* Error::unexpected() where a hex digit is due and Error::expected(b'-')
\* where a hyphen is due, the remaining input starting at that byte; later
\* defects are not reported and no Chunks value is produced.
C5_FirstError ==
    LET o == FirstDefect(src)
    IN  /\ pos <= o
        /\ pc # "panic"
        /\ (pc = "parsing" => ENABLED Next)
        /\ o < 36 =>
              /\ pc # "parsed"
              /\ parsed = NoChunks
              /\ out.tag # "Ok"
              /\ pc \in {"failed", "returned"} =>
                    /\ pos = o
                    /\ perr = IF (o + 1) \in HyphenPlaces
                              THEN [kind |-> "expected", byte |-> 45]
                              ELSE [kind |-> "unexpected", byte |-> 0]

\* C5 witness: an input with a non-hex byte where a digit is due and another
\* defect after it has failed at the first.
C5_Witness ==
    LET o == FirstDefect(src)
    IN  /\ pc = "failed"
        /\ o < Len(src)
        /\ (o + 1) \notin HyphenPlaces
        /\ \E q \in (o + 2)..Len(src) : q <= 36 /\ ~FitsAt(src, q)
        /\ pos = o
        /\ perr.kind = "unexpected"

\* C6 as claimed: an input that ends where a hex digit is due fails with an
\* error of its own kind, not the one a non-hex byte gets (which is
\* Error::unexpected()).
C6_TruncatedAsClaimed ==
    (TruncatedInField(src) /\ pc \in {"failed", "returned"}) =>
        perr # [kind |-> "unexpected", byte |-> 0]

\* C6 as amended: an input that ends where a hex digit is due fails with
\* Error::unexpected(), the error a non-hex byte gets, with the cursor at
\* the end of the input (the remaining input is empty).
C6_Truncated ==
    TruncatedInField(src) =>
        /\ pc \in {"parsing", "failed", "returned"}
        /\ pos <= Len(src)
        /\ (pc = "parsing" => ENABLED Next)
        /\ pc \in {"failed", "returned"} =>
              /\ perr.kind = "unexpected"
              /\ pos = Len(src)
              /\ out.tag # "Ok"

\* C6 witness: the empty input and an input cut inside its third field have
\* failed.
C6_Witness ==
    /\ pc = "failed"
    /\ TruncatedInField(src)
    /\ Len(src) \in {0, 16}
    /\ perr.kind = "unexpected"

\* C7: for every Chunks value c the parser produces, to_guid(c) and
\* to_parts(c) have chunk1, chunk2, chunk3 as their first three members and
\* bytes 8..15 of to_bytes(c) as their tail (high and low byte of chunk4,
\* high and low byte of chunk5.hi, then chunk5.lo big-endian), and parse
\* and the guid! macro return the same GUID.
C7_PlatformProjection ==
    (pc = "parsed" \/ (pc = "returned" /\ out.tag = "Ok")) =>
        LET c == parsed
            b == to_bytes(c)
            g == to_guid(c)
            q == to_parts(c)
            tail == SubSeq(b, 9, 16)
        IN  /\ g.Data1 = c.chunk1 /\ g.Data2 = c.chunk2 /\ g.Data3 = c.chunk3
            /\ q[1] = c.chunk1 /\ q[2] = c.chunk2 /\ q[3] = c.chunk3
            /\ g.Data4 = tail
            /\ q[4] = tail
            /\ tail = << c.chunk4 \div 256, c.chunk4 % 256,
                         c.chunk5.hi \div 256, c.chunk5.hi % 256,
                         c.chunk5.lo[1] \div 256, c.chunk5.lo[1] % 256,
                         c.chunk5.lo[2] \div 256, c.chunk5.lo[2] % 256 >>
            /\ (out.api = "parse" => out.val = guid_macro(q))
            /\ (out.api = "guid" => out.val = g)

\* C7 witness: parse has returned the GUID of the literal of test_guid.
C7_Witness ==
    /\ Returned("parse")
    /\ src = Literal2
    /\ out.val.Data4 = <<190, 239, 18, 52, 171, 205, 218, 218>>

\* C8 as claimed: every input on which the chunk parser fails makes
\* parse_bytes return an error, and inputs that fail at different positions
\* get different messages (the message identifies the position).
C8_MessageAsClaimed ==
    (Returned("parse_bytes") /\ perr.kind # "none") =>
        /\ out.tag = "Err"
        /\ \A t \in Probes :
              LET r == parse_only(t)
              IN  (~r.ok /\ ParseGuidError(<<>>, r.err).msg = out.msg) => r.pos = pos

\* C8 as amended: every input on which the chunk parser fails makes
\* parse_bytes (and parse) return a ParseGuidError, never an Ok value, whose
\* message is "unexpected" when a hex digit failed and "expected 45" when a
\* hyphen failed: it names neither the position nor the byte found.
C8_ErrorBoundary ==
    (pc = "returned" /\ out.api \in {"parse_bytes", "parse"}) =>
        /\ perr.kind = "none" => out.tag = "Ok"
        /\ perr.kind # "none" =>
              /\ ~parse_only(src).ok
              /\ out.tag = "Err"
              /\ out.val = <<>>
              /\ out.msg = IF (FirstDefect(src) + 1) \in HyphenPlaces
                           THEN "expected 45" ELSE "unexpected"

\* C8 witness: parse_bytes has returned the error of a failed hyphen.
C8_Witness ==
    /\ Returned("parse_bytes")
    /\ out.tag = "Err"
    /\ out.msg = "expected 45"

\* C9: the cursor moves forward only, by one byte with each digit or hyphen
\* accepted, and never passes offset 36; a successful parse ends at offset
\* 36, and when the first 36 bytes of the input are a literal the parser
\* succeeds with the result it gives for those 36 bytes alone.
C9_CursorDiscipline ==
    /\ [][/\ pos' \in {pos, pos + 1}
          /\ (pos' = pos + 1) <=> (step' = step + 1)
          /\ step' \in {step, step + 1}]_vars
    /\ [](/\ pos <= 36
          /\ pos <= Len(src)
          /\ pc = "parsed" => pos = 36
          /\ IsLiteral(First36(src)) =>
                /\ pc # "failed"
                /\ pc \in {"parsed", "returned"} =>
                      /\ perr = NoError
                      /\ pos = 36
                      /\ parse_only(First36(src)).ok
                      /\ parsed = parse_only(First36(src)).val)

\* C9 witness: a literal followed by two more bytes has been parsed, the
\* cursor at offset 36.
C9_Witness ==
    /\ pc = "parsed"
    /\ Len(src) = 38
    /\ pos = 36
    /\ parsed = parse_only(First36(src)).val

\* C10: every digit read has the value 0..15 of its hex digit (the
\* unreachable branch is not taken); four digits decode to
\* d1*4096 + d2*256 + d3*16 + d4; eight digits to (first four)*2^16 +
\* (last four); the twelve digits of the last field to hi = the first four
\* and lo = the last eight, to_u64 being their 48-bit big-endian value; and
\* no addition overflows its width.
C10_FieldDecoding ==
    /\ pc # "panic"
    /\ LET place == DigitPlaces
       IN  \A j \in 1..Len(digits) :
              /\ digits[j] \in 0..15
              /\ digits[j] = DigitValue(src[place[j]])
    /\ \A i \in {1, 5, 9, 13, 17, 21, 25, 29} :
          i + 3 <= Len(digits) =>
              /\ ShortAt(digits, i) =
                    digits[i] * 4096 + digits[i + 1] * 256 + digits[i + 2] * 16 + digits[i + 3]
              /\ ~short_chunk_overflows(digits[i], digits[i + 1], digits[i + 2], digits[i + 3])
    /\ \A i \in {1, 25} :
          i + 7 <= Len(digits) =>
              /\ MediumAt(digits, i) = <<ShortAt(digits, i), ShortAt(digits, i + 4)>>
              /\ MediumAt(digits, i) = NibblesToLimbs(SubSeq(digits, i, i + 7), 2)
              /\ ~medium_chunk_overflows(ShortAt(digits, i), ShortAt(digits, i + 4))
    /\ Len(digits) = 32 =>
          LET v == LongAt(digits, 21)
          IN  /\ v.hi = NibblesToLimbs(SubSeq(digits, 21, 24), 1)[1]
              /\ v.lo = NibblesToLimbs(SubSeq(digits, 25, 32), 2)
              /\ to_u64(v) = NibblesToLimbs(SubSeq(digits, 21, 32), 4)
              /\ to_u64(v) = <<0, v.hi, v.lo[1], v.lo[2]>>
              /\ ~to_u64_overflows(v)

\* C10 witness: the largest fields (all digits f) have been decoded.
C10_Witness ==
    /\ pc = "parsed"
    /\ src = Format(AllFF, "lower")
    /\ parsed.chunk1 = <<65535, 65535>>
    /\ to_u64(parsed.chunk5) = <<0, 65535, 65535, 65535>>

====
